---- MODULE Spec2Model ----
(***************************************************************************)
(* Model of log_analyzer.py: one run of main() over one access log.        *)
(*                                                                         *)
(* Numbers.  A request time is a non-negative decimal; it is modelled as   *)
(* an integer number of ticks of 0.0001 s, so that round(x, 3) is a real   *)
(* rounding (10 ticks = 0.001 s).  Percentages are integers in units of    *)
(* 0.001 percent.  Arithmetic is exact; round() is Python's round-half-to- *)
(* even.  error_threshold is a number of tenths (1 is 0.1, 2 is 0.2).      *)
(***************************************************************************)
EXTENDS Integers, Sequences, FiniteSets

VARIABLES pc, file_extension, error_threshold, file, stream_open, line_idx,
          data, total_lines_count, total_failed_lines_count, url_stats,
          report_data, final_report_data, report_size, report_writes,
          completed, error, outcome

vars == <<pc, file_extension, error_threshold, file, stream_open, line_idx,
          data, total_lines_count, total_failed_lines_count, url_stats,
          report_data, final_report_data, report_size, report_writes,
          completed, error, outcome>>

\* ------------------------------------------------------------------ bounds
MaxLines == 3          \* longest file built from arbitrary lines
MaxGateLines == 20     \* longest file of the shape no-match^f match^s
MaxReportSize == 3     \* largest REPORT_SIZE of the configuration

URLs == {"/a", "/b", "/c"}
Latencies == {0, 4, 6}
Thresholds == {1, 2}
ReportSizes == 1..MaxReportSize
Extensions == {"", ".gz"}

\* ------------------------------------------------------------- the lines
\* A line of the file, by what line.decode and re.search make of it.
NoMatch == [kind |-> "nomatch", url |-> "", request_time |-> 0]
Undecodable == [kind |-> "undecodable", url |-> "", request_time |-> 0]
Lines == [kind : {"match"}, url : URLs, request_time : Latencies]
           \cup {NoMatch, Undecodable}

GateLine == [kind |-> "match", url |-> "/a", request_time |-> 6]
GateFile(f, s) == [i \in 1..(f + s) |-> IF i <= f THEN NoMatch ELSE GateLine]

Files == UNION {[1..n -> Lines] : n \in 0..MaxLines}
           \cup UNION {{GateFile(n - s, s) : s \in 0..n} : n \in 0..MaxGateLines}

NoError == [type |-> "none", func |-> "none"]
Raise(t, fn) == [type |-> t, func |-> fn]

\* ------------------------------------------------------------ arithmetic
\* round(n / d) to an integer, ties to even (n >= 0, d > 0)
RoundHalfEven(n, d) ==
    LET q == n \div d
        r == n % d
    IN  IF 2 * r < d THEN q
        ELSE IF 2 * r > d THEN q + 1
        ELSE IF q % 2 = 0 THEN q ELSE q + 1

\* round(n / d, 3) of a time of n / d ticks, in ticks
Round3(n, d) == 10 * RoundHalfEven(n, 10 * d)

\* round(n / d * 100, 3), in units of 0.001 percent
RoundPerc(n, d) == RoundHalfEven(n * 100 * 1000, d)

RECURSIVE SumSeq(_)
SumSeq(s) == IF s = <<>> THEN 0 ELSE s[1] + SumSeq(Tail(s))

RECURSIVE Reverse(_)
Reverse(s) == IF s = <<>> THEN <<>> ELSE Append(Reverse(Tail(s)), s[1])

\* ------------------------------------------------------- parse_log_records
\* line.decode("utf-8") followed by re.search(pattern, record)
Decodes(line) == line.kind /= "undecodable"
Matches(line) == line.kind = "match"

HasKey(d, url) == \E i \in 1..Len(d) : d[i].url = url

\* mutant of AppendSample: data[url] = [t], losing the earlier samples
AppendSampleOverwrite(d, url, t) ==
    IF HasKey(d, url)
    THEN [i \in 1..Len(d) |->
            IF d[i].url = url
            THEN [d[i] EXCEPT !.request_times = <<t>>]
            ELSE d[i]]
    ELSE Append(d, [url |-> url, request_times |-> <<t>>])

\* data[url].append(float(request_time)) on a defaultdict(list): a mapping in
\* insertion order, as a sequence of [url, request_times]
AppendSample(d, url, t) ==
    IF HasKey(d, url)
    THEN [i \in 1..Len(d) |->
            IF d[i].url = url
            THEN [d[i] EXCEPT !.request_times = Append(@, t)]
            ELSE d[i]]
    ELSE Append(d, [url |-> url, request_times |-> <<t>>])

\* mutant of RatioExceeds: the ratio taken against all the lines
RatioExceedsOfTotal(failed, successful, threshold) ==
    failed * 10 > threshold * (failed + successful)

\* failed_lines_ratio > error_threshold, error_threshold in tenths
RatioExceeds(failed, successful, threshold) ==
    failed * 10 > threshold * successful

\* the exception, if any, that lines 115-119 raise after the loop
GateError(failed, successful, threshold) ==
    IF successful = 0 THEN "ZeroDivisionError"
    ELSE IF RatioExceeds(failed, successful, threshold) THEN "Exception"
    ELSE "none"

\* mutant of OpenAfterWith: f.close() reached on the normal path only
OpenAfterWithNoFinally(raised) == raised /= "none"

\* whether the stream is open once the with block has been left
OpenAfterWith(raised) == FALSE

\* ----------------------------------------------------- build_report_object
\* sorted(request_times, reverse=False): insertion of x after its equals
RECURSIVE InsertFloat(_, _)
InsertFloat(x, s) ==
    IF s = <<>> THEN <<x>>
    ELSE IF x < s[1] THEN <<x>> \o s
    ELSE <<s[1]>> \o InsertFloat(x, Tail(s))

RECURSIVE SortedFloats(_)
SortedFloats(s) ==
    IF s = <<>> THEN <<>>
    ELSE InsertFloat(s[Len(s)], SortedFloats(SubSeq(s, 1, Len(s) - 1)))

\* round(median(request_times), 3)
MedianRounded(request_times) ==
    LET s == SortedFloats(request_times)
        n == Len(s)
    IN  IF n % 2 = 1 THEN Round3(s[(n + 1) \div 2], 1)
        ELSE Round3(s[n \div 2] + s[n \div 2 + 1], 2)

RECURSIVE CountTotal(_)
CountTotal(d) ==
    IF d = <<>> THEN 0 ELSE Len(d[1].request_times) + CountTotal(Tail(d))

RECURSIVE TimeSumTotal(_)
TimeSumTotal(d) ==
    IF d = <<>> THEN 0 ELSE SumSeq(d[1].request_times) + TimeSumTotal(Tail(d))

ReportRecord(entry, count_total, time_sum_total) ==
    LET count_url == Len(entry.request_times)
        time_sum_url == SumSeq(entry.request_times)
    IN  [url |-> entry.url,
         count |-> count_url,
         count_perc |-> RoundPerc(count_url, count_total),
         time_sum |-> Round3(time_sum_url, 1),
         time_perc |-> RoundPerc(time_sum_url, time_sum_total),
         time_avg |-> Round3(time_sum_url, count_url),
         time_max |-> SortedFloats(entry.request_times)[count_url],
         time_med |-> MedianRounded(entry.request_times)]

\* the result of build_report_object: the exception raised, or the list
build_report_object(stats) ==
    LET count_total == CountTotal(stats)
        time_sum_total == TimeSumTotal(stats)
    IN  IF stats /= <<>> /\ (count_total = 0 \/ time_sum_total = 0)
        THEN [raised |-> "ZeroDivisionError", value |-> <<>>]
        ELSE [raised |-> "none",
              value |-> [i \in 1..Len(stats) |->
                           ReportRecord(stats[i], count_total, time_sum_total)]]

\* ----------------------------------------------------------- filter_report
\* list.sort is stable: x goes after the elements whose key is <= its own
RECURSIVE InsertByTimeSum(_, _)
InsertByTimeSum(x, s) ==
    IF s = <<>> THEN <<x>>
    ELSE IF x.time_sum < s[1].time_sum THEN <<x>> \o s
    ELSE <<s[1]>> \o InsertByTimeSum(x, Tail(s))

RECURSIVE StableSortByTimeSum(_)
StableSortByTimeSum(s) ==
    IF s = <<>> THEN <<>>
    ELSE InsertByTimeSum(s[Len(s)], StableSortByTimeSum(SubSeq(s, 1, Len(s) - 1)))

\* mutant of SortedDescending: sorted(...)[::-1], which reverses the ties
SortedAscendingReversed(s) == Reverse(StableSortByTimeSum(s))

\* sorted(report_data, key=time_sum, reverse=True): CPython reverses the
\* copy, sorts it stably in ascending order, and reverses it again
SortedDescending(s) == Reverse(StableSortByTimeSum(Reverse(s)))

\* final_report_data[:report_size]
Slice(s, n) ==
    IF n >= 0 THEN SubSeq(s, 1, IF n < Len(s) THEN n ELSE Len(s))
    ELSE SubSeq(s, 1, IF Len(s) + n > 0 THEN Len(s) + n ELSE 0)

\* mutant of filter_report: report_data.sort(...), sorting the caller's list
filter_report_in_place(records, size) ==
    [argument |-> SortedDescending(records),
     value |-> Slice(SortedDescending(records), size)]

\* the caller's list after the call, and the list returned
filter_report(records, size) ==
    [argument |-> records, value |-> Slice(SortedDescending(records), size)]

\* ------------------------------------------------------- dump_final_report
\* the template is read before the report is opened for writing
dump_final_report(template_ok, writes) ==
    IF template_ok
    THEN [raised |-> "none", writes |-> writes + 1]
    ELSE [raised |-> "FileNotFoundError", writes |-> writes]

\* -------------------------------------------------------------------- main
\* mutant of AfterCall: the exception is swallowed and main goes on
AfterCallSwallowed(raised, next) == next

\* where control goes once a call made by main has ended: an exception
\* leaves main and reaches the handler of the __main__ block
AfterCall(raised, next) == IF raised = "none" THEN next ELSE "except"

Init ==
    /\ pc = "main_config"
    /\ file_extension = ""
    /\ error_threshold = 0
    /\ file = <<>>
    /\ stream_open = FALSE
    /\ line_idx = 0
    /\ data = <<>>
    /\ total_lines_count = 0
    /\ total_failed_lines_count = 0
    /\ url_stats = <<>>
    /\ report_data = <<>>
    /\ final_report_data = <<>>
    /\ report_size = 0
    /\ report_writes = 0
    /\ completed = <<>>
    /\ error = NoError
    /\ outcome = "running"

\* parse_args, parse_config, set_logging
MainParseConfig ==
    /\ pc = "main_config"
    /\ \E raised \in {"none", "FileNotFoundError"} :
          /\ pc' = AfterCall(raised, "main_latest_log")
          /\ error' = IF raised = "none" THEN error
                      ELSE Raise(raised, "parse_config")
    /\ UNCHANGED <<file_extension, error_threshold, file, stream_open,
                   line_idx, data, total_lines_count,
                   total_failed_lines_count, url_stats, report_data,
                   final_report_data, report_size, report_writes, completed,
                   outcome>>

\* get_latest_log and the sys.exit(0) when no log is found
MainGetLatestLog ==
    /\ pc = "main_latest_log"
    /\ \/ /\ pc' = "done"
          /\ outcome' = "exit_no_logs"
          /\ UNCHANGED file_extension
       \/ \E ext \in Extensions :
             /\ file_extension' = ext
             /\ pc' = "main_threshold"
             /\ UNCHANGED outcome
    /\ UNCHANGED <<error_threshold, file, stream_open, line_idx, data,
                   total_lines_count, total_failed_lines_count, url_stats,
                   report_data, final_report_data, report_size,
                   report_writes, completed, error>>

\* build_report_path, the log message when the report exists, and
\* config.get("ERROR_THRESHOLD", 0.1)
MainReadThreshold ==
    /\ pc = "main_threshold"
    /\ \E t \in Thresholds : error_threshold' = t
    /\ pc' = "plr_open"
    /\ UNCHANGED <<file_extension, file, stream_open, line_idx, data,
                   total_lines_count, total_failed_lines_count, url_stats,
                   report_data, final_report_data, report_size,
                   report_writes, completed, error, outcome>>

\* with func(path, "rb") as f, and the initialisation of the locals
PlrOpen ==
    /\ pc = "plr_open"
    /\ \/ /\ \E fl \in Files : file' = fl
          /\ stream_open' = TRUE
          /\ pc' = "plr_loop"
          /\ UNCHANGED error
       \/ /\ error' = Raise("FileNotFoundError", "parse_log_records")
          /\ pc' = AfterCall("FileNotFoundError", "main_check")
          /\ UNCHANGED <<file, stream_open>>
    /\ line_idx' = 0
    /\ data' = <<>>
    /\ total_lines_count' = 0
    /\ total_failed_lines_count' = 0
    /\ UNCHANGED <<file_extension, error_threshold, url_stats, report_data,
                   final_report_data, report_size, report_writes, completed,
                   outcome>>

\* one iteration of the for loop
PlrReadLine ==
    /\ pc = "plr_loop"
    /\ line_idx < Len(file)
    /\ line_idx' = line_idx + 1
    /\ LET line == file[line_idx + 1]
       IN  IF ~Decodes(line)
           THEN /\ error' = Raise("UnicodeDecodeError", "parse_log_records")
                /\ stream_open' = OpenAfterWith("UnicodeDecodeError")
                /\ pc' = AfterCall("UnicodeDecodeError", "main_check")
                /\ UNCHANGED <<data, total_lines_count,
                               total_failed_lines_count>>
           ELSE IF ~Matches(line)
           THEN /\ total_failed_lines_count' = total_failed_lines_count + 1
                /\ UNCHANGED <<data, total_lines_count, error, stream_open,
                               pc>>
           ELSE /\ data' = AppendSample(data, line.url, line.request_time)
                /\ total_lines_count' = total_lines_count + 1
                /\ UNCHANGED <<total_failed_lines_count, error, stream_open,
                               pc>>
    /\ UNCHANGED <<file_extension, error_threshold, file, url_stats,
                   report_data, final_report_data, report_size,
                   report_writes, completed, outcome>>

\* the stream is exhausted: the ratio, the check, the return
PlrGate ==
    /\ pc = "plr_loop"
    /\ line_idx = Len(file)
    /\ LET raised == GateError(total_failed_lines_count, total_lines_count,
                               error_threshold)
       IN  /\ pc' = AfterCall(raised, "main_check")
           /\ stream_open' = OpenAfterWith(raised)
           /\ IF raised = "none"
              THEN /\ url_stats' = data
                   /\ completed' = Append(completed, "parse_log_records")
                   /\ UNCHANGED error
              ELSE /\ error' = Raise(raised, "parse_log_records")
                   /\ UNCHANGED <<url_stats, completed>>
    /\ UNCHANGED <<file_extension, error_threshold, file, line_idx, data,
                   total_lines_count, total_failed_lines_count, report_data,
                   final_report_data, report_size, report_writes, outcome>>

\* if not url_stats: sys.exit(0)
MainCheckEmpty ==
    /\ pc = "main_check"
    /\ IF url_stats = <<>>
       THEN pc' = "done" /\ outcome' = "exit_no_records"
       ELSE pc' = "main_build" /\ UNCHANGED outcome
    /\ UNCHANGED <<file_extension, error_threshold, file, stream_open,
                   line_idx, data, total_lines_count,
                   total_failed_lines_count, url_stats, report_data,
                   final_report_data, report_size, report_writes, completed,
                   error>>

MainBuild ==
    /\ pc = "main_build"
    /\ LET r == build_report_object(url_stats)
       IN  /\ pc' = AfterCall(r.raised, "main_filter")
           /\ IF r.raised = "none"
              THEN /\ report_data' = r.value
                   /\ completed' = Append(completed, "build_report_object")
                   /\ UNCHANGED error
              ELSE /\ error' = Raise(r.raised, "build_report_object")
                   /\ UNCHANGED <<report_data, completed>>
    /\ UNCHANGED <<file_extension, error_threshold, file, stream_open,
                   line_idx, data, total_lines_count,
                   total_failed_lines_count, url_stats, final_report_data,
                   report_size, report_writes, outcome>>

MainFilter ==
    /\ pc = "main_filter"
    /\ \E n \in ReportSizes :
          LET r == filter_report(report_data, n)
          IN  /\ report_size' = n
              /\ report_data' = r.argument
              /\ final_report_data' = r.value
    /\ completed' = Append(completed, "filter_report")
    /\ pc' = "main_dump"
    /\ UNCHANGED <<file_extension, error_threshold, file, stream_open,
                   line_idx, data, total_lines_count,
                   total_failed_lines_count, url_stats, report_writes, error,
                   outcome>>

MainDump ==
    /\ pc = "main_dump"
    /\ \E template_ok \in BOOLEAN :
          LET r == dump_final_report(template_ok, report_writes)
          IN  /\ report_writes' = r.writes
              /\ pc' = AfterCall(r.raised, "done")
              /\ IF r.raised = "none"
                 THEN /\ outcome' = "returned"
                      /\ completed' = Append(completed, "dump_final_report")
                      /\ UNCHANGED error
                 ELSE /\ error' = Raise(r.raised, "dump_final_report")
                      /\ UNCHANGED <<outcome, completed>>
    /\ UNCHANGED <<file_extension, error_threshold, file, stream_open,
                   line_idx, data, total_lines_count,
                   total_failed_lines_count, url_stats, report_data,
                   final_report_data, report_size>>

\* except Exception as e: logging.exception(e)
TopLevelExcept ==
    /\ pc = "except"
    /\ pc' = "done"
    /\ outcome' = "exception"
    /\ UNCHANGED <<file_extension, error_threshold, file, stream_open,
                   line_idx, data, total_lines_count,
                   total_failed_lines_count, url_stats, report_data,
                   final_report_data, report_size, report_writes, completed,
                   error>>

Next ==
    \/ MainParseConfig
    \/ MainGetLatestLog
    \/ MainReadThreshold
    \/ PlrOpen
    \/ PlrReadLine
    \/ PlrGate
    \/ MainCheckEmpty
    \/ MainBuild
    \/ MainFilter
    \/ MainDump
    \/ TopLevelExcept

Spec == Init /\ [][Next]_vars

\* ============================================================== properties
\* helpers of the properties, stated on the file rather than the counters
RECURSIVE CountKind(_, _)
CountKind(lines, kind) ==
    IF lines = <<>> THEN 0
    ELSE (IF lines[1].kind = kind THEN 1 ELSE 0) + CountKind(Tail(lines), kind)

RECURSIVE LatenciesOf(_, _)
LatenciesOf(lines, url) ==
    IF lines = <<>> THEN <<>>
    ELSE IF lines[1].kind = "match" /\ lines[1].url = url
         THEN <<lines[1].request_time>> \o LatenciesOf(Tail(lines), url)
         ELSE LatenciesOf(Tail(lines), url)

Consumed == SubSeq(file, 1, line_idx)
ParseReturned == Len(completed) >= 1 /\ completed[1] = "parse_log_records"
ParseRaised(t) == error = Raise(t, "parse_log_records")
\* parse_log_records read the stream to its end and is over
StreamExhausted ==
    /\ ParseReturned \/ ParseRaised("Exception") \/ ParseRaised("ZeroDivisionError")
    /\ line_idx = Len(file)
BuildEnded ==
    /\ ParseReturned
    /\ pc \notin {"main_check", "main_build"}
BuildReturned == Len(completed) >= 2 /\ completed[2] = "build_report_object"
FilterReturned == Len(completed) >= 3 /\ completed[3] = "filter_report"

\* C1: when the stream is exhausted with no successfully extracted line,
\* parse_log_records ends in its own fatal error, never in a
\* division-by-zero error.  (Stated as claimed; the code violates it.)
C1_NoParseableDataIsFatalNotNumeric ==
    (StreamExhausted /\ total_lines_count = 0)
        => /\ error.func = "parse_log_records"
           /\ error.type \notin {"none", "ZeroDivisionError"}

\* C2: with at least one successfully extracted line, parse_log_records
\* decides after the whole stream was consumed, raises the fatal error iff
\* failed / successful > error_threshold (strictly, against the successful
\* lines) and returns the mapping otherwise; a stream of which 15% of all
\* lines fail is rejected at 0.1 and accepted at 0.2.
C2_GateDecidesOnRatioAfterWholeStream ==
    LET successful == CountKind(file, "match")
        failed == CountKind(file, "nomatch")
        whole == CountKind(file, "undecodable") = 0
        over == ParseReturned \/ ParseRaised("Exception")
    IN  /\ over => line_idx = Len(file)
        /\ (pc \notin {"plr_open", "plr_loop"} /\ whole /\ successful >= 1)
             => /\ ParseRaised("Exception")
                     <=> failed * 10 > error_threshold * successful
                /\ ~ParseRaised("Exception")
                     => ParseReturned /\ url_stats = data /\ url_stats /= <<>>
                /\ (failed * 100 = 15 * Len(file))
                     => /\ error_threshold = 1 => ParseRaised("Exception")
                        /\ error_threshold = 2 => ParseReturned

C2_Witness ==
    /\ pc = "done"
    /\ CountKind(file, "nomatch") * 100 = 15 * Len(file)
    /\ CountKind(file, "match") >= 1
    /\ error_threshold = 1
    /\ ParseRaised("Exception")

\* C3: a run over a stream with zero matching lines ends in the 'no related
\* records found' exit of main, distinct from the outcome of the corruption
\* gate.  (Stated as claimed; the code violates it.)
C3_ZeroMatchingLinesEndsFatalEmpty ==
    (pc = "done" /\ StreamExhausted /\ CountKind(file, "match") = 0)
        => outcome = "exit_no_records"

\* C4: the report is written at most once, and only after
\* parse_log_records, build_report_object and filter_report completed
\* normally in that order; a run that hit a fatal condition before
\* dump_final_report wrote no report.
C4_AllOrNothing ==
    /\ report_writes <= 1
    /\ report_writes >= 1
         => /\ SubSeq(completed, 1, 3)
                 = <<"parse_log_records", "build_report_object", "filter_report">>
            /\ error = NoError
            /\ outcome = "returned"
    /\ (error /= NoError \/ outcome \in {"exception", "exit_no_logs", "exit_no_records"})
         => report_writes = 0

C4_Witness ==
    /\ pc = "done"
    /\ report_writes = 1
    /\ completed = <<"parse_log_records", "build_report_object",
                     "filter_report", "dump_final_report">>

\* the index of record r in the list s (records of one report differ in url)
Pos(s, r) == CHOOSE i \in 1..Len(s) : s[i] = r
Range(s) == {s[i] : i \in 1..Len(s)}
\* record a comes before record b in the ranking of the list s
Before(s, a, b) ==
    \/ a.time_sum > b.time_sum
    \/ a.time_sum = b.time_sum /\ Pos(s, a) < Pos(s, b)

\* what C5 asks of the list out returned for the list in and the size n
TopN(in, n, out) ==
    /\ Len(out) = (IF n < Len(in) THEN n ELSE Len(in))
    /\ Range(out) \subseteq Range(in)
    /\ \A i, j \in 1..Len(out) : i < j => Before(in, out[i], out[j])
    /\ \A r \in Range(in) \ Range(out) :
          \A i \in 1..Len(out) : Before(in, out[i], r)
    /\ n >= Len(in)
         => /\ Range(out) = Range(in)
            /\ \A i \in 1..(Len(out) - 1) : out[i].time_sum >= out[i + 1].time_sum
    /\ filter_report(out, n).value = out

\* C5: for a positive report_size N, filter_report returns min(N, len)
\* records, the first of the input ordered by time_sum descending with equal
\* time_sum in input order; with N >= len all records, sorted; and filtering
\* its own output again with the same N returns it unchanged.
C5_FilterReturnsStableTopN ==
    [][pc = "main_filter"
         => TopN(report_data, report_size', final_report_data')]_vars

\* a report of three records, two of them tied, cut to two, where the
\* ranking differs from the input order
C5_Witness ==
    /\ FilterReturned
    /\ Len(report_data) = 3
    /\ report_size = 2
    /\ \E i, j \in 1..3 : i < j /\ report_data[i].time_sum = report_data[j].time_sum
    /\ final_report_data /= SubSeq(report_data, 1, 2)

\* C6: the stream opened by parse_log_records is closed on every way out of
\* the function: it is open only while the loop of the with block runs.
C6_StreamClosedOnEveryExit ==
    pc /= "plr_loop" => ~stream_open

\* the run ended by a decoding error in the middle of the stream
C6_Witness ==
    /\ pc = "done"
    /\ ParseRaised("UnicodeDecodeError")
    /\ line_idx >= 2
    /\ ~stream_open

RECURSIVE SumField(_, _)
SumField(s, field) ==
    IF s = <<>> THEN 0 ELSE s[1][field] + SumField(Tail(s), field)

\* C7: for every mapping parse_log_records returns, build_report_object
\* completes and the time_perc of its records sum to 100 within 0.001 times
\* the number of endpoints, each computed from the unrounded sums.
\* (Stated as claimed; the code violates it.)
C7_TimePercSumsTo100 ==
    BuildEnded
        => /\ BuildReturned
           /\ LET n == Len(report_data)
                  total == SumField(report_data, "time_perc")
              IN  /\ total >= 100 * 1000 - n
                  /\ total <= 100 * 1000 + n
           /\ \A i \in 1..Len(report_data) :
                 report_data[i].time_perc
                   = RoundHalfEven(SumSeq(url_stats[i].request_times) * 100 * 1000,
                                   TimeSumTotal(url_stats))

\* C8: filter_report leaves the list it is given unchanged.
C8_FilterLeavesInputUnchanged ==
    [][pc = "main_filter" => report_data' = report_data]_vars

\* filter_report returned a list ordered differently from its input
C8_Witness ==
    /\ FilterReturned
    /\ Len(report_data) >= 2
    /\ final_report_data /= SubSeq(report_data, 1, Len(final_report_data))

\* what the loop maintains, on the lines consumed so far
LoopInvariant ==
    /\ total_lines_count + total_failed_lines_count = line_idx
    /\ total_lines_count = CountKind(Consumed, "match")
    /\ \A i \in 1..Len(data) : data[i].request_times /= <<>>
    /\ \A i, j \in 1..Len(data) : i /= j => data[i].url /= data[j].url
    /\ CountTotal(data) = total_lines_count
    /\ \A i \in 1..Len(data) :
          data[i].request_times = LatenciesOf(Consumed, data[i].url)
    /\ \A u \in URLs : LatenciesOf(Consumed, u) /= <<>> => HasKey(data, u)

\* an iteration over a line that fails extraction
FailedLineStep ==
    /\ pc = "plr_loop"
    /\ line_idx' = line_idx + 1
    /\ file[line_idx + 1].kind = "nomatch"

\* C9: at every step of the line loop successful + failed = lines consumed,
\* every key has a non-empty list, the lengths sum to the successful count
\* and each list holds the latencies of the extracted lines of its endpoint
\* in stream order; a line that fails extraction changes only the failed
\* counter; a mapping returned by parse_log_records has an endpoint.
C9_LoopKeepsCountsAndMapping ==
    /\ [](pc = "plr_loop" => LoopInvariant)
    /\ [][FailedLineStep
            => /\ data' = data
               /\ total_lines_count' = total_lines_count
               /\ total_failed_lines_count' = total_failed_lines_count + 1]_vars
    /\ [](ParseReturned => url_stats /= <<>>)

\* three lines consumed: a failed one, and two of one endpoint whose
\* latencies arrived in descending order
C9_Witness ==
    /\ pc = "plr_loop"
    /\ line_idx = 3
    /\ total_failed_lines_count = 1
    /\ \E i \in 1..Len(data) :
          /\ Len(data[i].request_times) = 2
          /\ data[i].request_times[1] > data[i].request_times[2]

RECURSIVE MaxOf(_)
MaxOf(s) ==
    IF Len(s) = 1 THEN s[1]
    ELSE LET m == MaxOf(Tail(s)) IN IF s[1] >= m THEN s[1] ELSE m

\* C10: build_report_object returns one record per endpoint of the mapping,
\* in the mapping's order, with count the number of samples and time_max the
\* largest sample, unrounded; the counts sum to the number of samples; the
\* empty mapping gives the empty list.  (Stated as claimed; the code
\* violates it.)
C10_OneRecordPerEndpoint ==
    /\ build_report_object(<<>>) = [raised |-> "none", value |-> <<>>]
    /\ BuildEnded
         => /\ BuildReturned
            /\ Len(report_data) = Len(url_stats)
            /\ \A i \in 1..Len(url_stats) :
                  /\ report_data[i].url = url_stats[i].url
                  /\ report_data[i].count = Len(url_stats[i].request_times)
                  /\ report_data[i].time_max = MaxOf(url_stats[i].request_times)
            /\ SumField(report_data, "count") = total_lines_count

====
